---- MODULE Spec2Model ----
(***************************************************************************)
(* Model of the module indexer (src/util/module/generate-image-index.py):   *)
(* the PDF page/image extractor, the LLM annotator and the annotation      *)
(* combiner of ModuleIndex, as one sequential state machine (Spec); the   *)
(* JSON span of a response (SpecJson); the provider abstraction of         *)
(* src/util/module/llm_interface.py on its own (SpecProvider); and the     *)
(* rule-set RAG script src/util/rule-set/colqwen2.py (SpecRag).            *)
(*                                                                         *)
(* File names are sequences of one-character strings followed by one       *)
(* extension token (".png", ".json" or "" for no suffix), so that          *)
(* formatting (f"{n:04d}", f"{n}"), str.split('-'), '-'.join, int(),       *)
(* Path.stem and Path.with_suffix are computed, not assumed.               *)
(***************************************************************************)
EXTENDS Integers, Sequences, FiniteSets, TLC

\* ------------------------------------------------------------------ bounds
MaxDocs == 2      \* PDFs in the module directory
MaxPages == 2     \* pages per PDF
MaxImages == 3    \* image-list entries examined in one run, over all pages
MaxLen == 4       \* characters of a raw LLM response (JSON span extraction)
MaxPageImages == 4   \* files in the page_image/ directory of a rule set
MaxQueries == 2      \* queries answered by one run of the RAG script
MaxStemLen == 3      \* characters of the stem of a PDF file name

\* ------------------------------------------------- constants of the program
MIN_DIMENSION == 50   \* if width < 50 or height < 50: continue
BATCH_SIZE == 3       \* colqwen2.py, BATCH_SIZE = 3
UPSERT_ATTEMPTS == 3  \* colqwen2.py, @stamina.retry(on=Exception, attempts=3)

Hashes == {"h1", "h2"}          \* SHA-256 digests of image contents
Xrefs == {1, 2}                 \* xref numbers of PDF image objects
Dimensions == {MIN_DIMENSION - 1, MIN_DIMENSION}

RequiredFields == {"description", "context", "type", "relevance",
                   "keywords", "secret", "handout"}
OptionalFields == {"location"}

\* ------------------------------------------------------ strings and paths
Digit(d) == <<"0", "1", "2", "3", "4", "5", "6", "7", "8", "9">>[d + 1]

RECURSIVE Str(_)
\* f"{n}" of an int
Str(n) ==
  IF n < 0 THEN <<"-">> \o Str(-n)
  ELSE IF n < 10 THEN <<Digit(n)>>
  ELSE Str(n \div 10) \o <<Digit(n % 10)>>

\* f"{n:04d}" of an int: zero-padded to a minimum width of four
Fmt04(n) ==
  LET s == Str(n)
  IN IF Len(s) >= 4 THEN s ELSE [i \in 1..(4 - Len(s)) |-> "0"] \o s

\* Path.stem / Path.with_suffix / the suffix of a name
PathStem(name) == SubSeq(name, 1, Len(name) - 1)
WithSuffix(name, ext) == PathStem(name) \o <<ext>>
Suffix(name) == name[Len(name)]

RECURSIVE Split(_)
\* str.split('-')
Split(s) ==
  IF \A i \in 1..Len(s) : s[i] # "-" THEN <<s>>
  ELSE LET i == CHOOSE k \in 1..Len(s) :
                  s[k] = "-" /\ \A j \in 1..(k - 1) : s[j] # "-"
       IN <<SubSeq(s, 1, i - 1)>> \o Split(SubSeq(s, i + 1, Len(s)))

RECURSIVE Join(_)
\* '-'.join(parts)
Join(parts) ==
  IF Len(parts) = 0 THEN <<>>
  ELSE IF Len(parts) = 1 THEN parts[1]
  ELSE parts[1] \o <<"-">> \o Join(Tail(parts))

DigitValue(c) == CHOOSE d \in 0..9 : Digit(d) = c
IsDigit(c) == \E d \in 0..9 : Digit(d) = c

RECURSIVE DigitsValue(_)
DigitsValue(s) ==
  IF Len(s) = 0 THEN 0
  ELSE 10 * DigitsValue(SubSeq(s, 1, Len(s) - 1)) + DigitValue(s[Len(s)])

\* int(page_num_str); -1 stands for ValueError
ParseInt(s) ==
  IF Len(s) > 0 /\ \A i \in 1..Len(s) : IsDigit(s[i]) THEN DigitsValue(s) ELSE -1

\* The stem of the i-th PDF the glob yields: "a", "a-a", "a-a-a", ...
StemOf(i) == [k \in 1..(2 * i - 1) |-> IF k % 2 = 1 THEN "a" ELSE "-"]

\* page.number used as is: the name of page 1 would end in 0000
PageImageNameZeroBased(base_file_name, number) ==
  base_file_name \o <<"-">> \o Fmt04(number) \o <<".png">>

\* f"{base_file_name}-{page.number+1:04d}.png"
PageImageName(base_file_name, number) ==
  base_file_name \o <<"-">> \o Fmt04(number + 1) \o <<".png">>

\* f"{base_file_name}-{page.number+1:04d}-{img_index+1:04d}.png"
EmbeddedImageName(base_file_name, number, img_index) ==
  base_file_name \o <<"-">> \o Fmt04(number + 1) \o <<"-">>
    \o Fmt04(img_index + 1) \o <<".png">>

\* ------------------------------------------------------------ directories
\* A directory is [exists, entries]; an entry is [name, kind, writes, data]:
\* kind "file" or "dir", writes the number of times this run wrote it (0 for
\* an entry that was there before the run), data the content (the hash of a
\* PNG, the keys of a JSON object).
Entry(name, kind, writes, data) ==
  [name |-> name, kind |-> kind, writes |-> writes, data |-> data]

Names(dir) == {e.name : e \in dir.entries}
Lookup(dir, name) == CHOOSE e \in dir.entries : e.name = name
PathExists(dir, name) == dir.exists /\ name \in Names(dir)

\* Path.glob('*<ext>')
Glob(dir, ext) == {e.name : e \in {x \in dir.entries : Suffix(x.name) = ext}}

\* the directory is created when missing and its files are never unlinked
CleanDirectoryKeepsFiles(dir) == [exists |-> TRUE, entries |-> dir.entries]

\* _clean_directory
CleanDirectory(dir) ==
  IF dir.exists
  THEN [exists |-> TRUE, entries |-> {e \in dir.entries : e.kind # "file"}]
  ELSE [exists |-> TRUE, entries |-> {}]

\* open(path, 'w') / pix.save / image.save: create or overwrite a file
WriteFile(dir, name, data) ==
  LET old == {e \in dir.entries : e.name = name}
      n == IF old = {} THEN 0 ELSE (Lookup(dir, name)).writes
  IN [dir EXCEPT !.entries = (@ \ old) \cup {Entry(name, "file", n + 1, data)}]

OldPageEntries ==
  { Entry(PageImageName(StemOf(1), 0), "file", 0, {}),
    Entry(<<"s", "u", "b", "">>, "dir", 0, {}) }
OldEmbeddedEntries ==
  { Entry(<<"o", "l", "d", ".json">>, "file", 0, RequiredFields),
    Entry(<<"s", "u", "b", "">>, "dir", 0, {}) }
\* a sub-directory whose name matches glob('*.json'): open() on it raises
OldJsonDirEntries ==
  { Entry(<<"s", "u", "b", ".json">>, "dir", 0, {}) }

\* ------------------------------------------------------------ LLM provider
\* Model names are token sequences, so that "gpt-4" in self.model is a search.
Models == {<<"gpt-4", "o">>, <<"gpt-3.5", "-turbo">>}
NoProvider == [present |-> FALSE, model |-> <<>>]

\* OpenAIProvider.supports_images
SupportsImages(model) == \E i \in 1..Len(model) : model[i] = "gpt-4"

\* ModuleIndex.__init__: the provider, or None when construction raises
InitProvider(api_key_set, model) ==
  IF api_key_set THEN [present |-> TRUE, model |-> model] ELSE NoProvider

\* --------------------------------------------- JSON span of an LLM response
\* A response text is a sequence over: "{", "}", "f" (text of members that
\* give every required field), "k" (text of a member that gives an optional
\* field only) and "x" (prose that is not JSON).
Alphabet == {"{", "}", "f", "k", "x"}
Texts == UNION {[1..n -> Alphabet] : n \in 0..MaxLen}

\* str.find: 0-based index of the first occurrence, -1 when there is none
Find(s, c) ==
  IF \E i \in 1..Len(s) : s[i] = c
  THEN (CHOOSE i \in 1..Len(s) : s[i] = c /\ \A j \in 1..(i - 1) : s[j] # c) - 1
  ELSE -1

\* str.find used for the closing brace as well
RFindFirst(s, c) ==
  IF \E i \in 1..Len(s) : s[i] = c
  THEN (CHOOSE i \in 1..Len(s) : s[i] = c /\ \A j \in 1..(i - 1) : s[j] # c) - 1
  ELSE -1

\* str.rfind: 0-based index of the last occurrence, -1 when there is none
RFind(s, c) ==
  IF \E i \in 1..Len(s) : s[i] = c
  THEN (CHOOSE i \in 1..Len(s) : s[i] = c /\ \A j \in (i + 1)..Len(s) : s[j] # c) - 1
  ELSE -1

\* content[a:b] for 0 <= a <= b
Slice(s, a, b) == SubSeq(s, a + 1, b)

\* if start_idx != -1 and end_idx != -1 and end_idx > start_idx
SpanFound(start, end) == start # -1 /\ end # -1 /\ end > start

\* nesting depth after the first i characters
Depth(s, i) ==
  Cardinality({j \in 1..i : s[j] = "{"}) - Cardinality({j \in 1..i : s[j] = "}"})

\* json.loads accepts exactly one object: no prose, the first brace closed
\* by the last character and by no earlier one
JsonValid(s) ==
  /\ Len(s) >= 2
  /\ s[1] = "{"
  /\ \A i \in 1..Len(s) : s[i] # "x"
  /\ \A i \in 1..(Len(s) - 1) : Depth(s, i) > 0
  /\ Depth(s, Len(s)) = 0

\* the keys of the parsed object: the members at nesting depth 1
JsonKeys(s) ==
  (IF \E i \in 1..Len(s) : s[i] = "f" /\ Depth(s, i) = 1 THEN RequiredFields ELSE {})
    \cup (IF \E i \in 1..Len(s) : s[i] = "k" /\ Depth(s, i) = 1 THEN OptionalFields ELSE {})

\* lines 401-417: the parsed object, or the ValueError / JSONDecodeError
ParseResponse(text) ==
  LET start == Find(text, "{")
      end == RFind(text, "}")
      span == Slice(text, start, end + 1)
  IN IF SpanFound(start, end) /\ JsonValid(span)
     THEN [ok |-> TRUE, keys |-> JsonKeys(span)]
     ELSE [ok |-> FALSE, keys |-> {}]

\* What send_message may do: raise, or return one of these texts.
Responses ==
  { <<"{", "f", "}">>, <<"x", "{", "f", "}">>, <<"{", "k", "}">>,
    <<"{", "}", "{", "}">>, <<"x">> }
Answers ==
  {[raised |-> TRUE, text |-> <<>>]}
    \cup {[raised |-> FALSE, text |-> r] : r \in Responses}

\* ------------------------------------------------------------------ state
VARIABLES
  pc,            \* position in main / create_index
  llm_provider,  \* self._llm_provider
  pageDir,       \* <module>/page-images
  embDir,        \* <module>/embedded-images
  manifest,      \* <module>/embedded-images.json
  image_hashes,  \* self._image_hashes: hash -> filename
  donePdfs,      \* stems of the PDFs _process_pdf has returned from
  docPages,      \* page_count of every PDF processed so far
  curDoc,        \* base_file_name of the PDF being processed
  pageNumber,    \* page.number of the page being processed (0-based)
  xreflist,      \* the xreflist of _process_pdf
  img_index,     \* index into the page's image list
  img,           \* the image-list entry examined last on the current page
  nImages,       \* image-list entries examined so far in this run
  seenInDoc,     \* hashes of the large images met so far in the current PDF
  origin,        \* embedded image name -> the PDF and page it came from
  todoImgs,      \* embedded images the annotator has still to visit
  outcome,       \* embedded image name -> how its annotation ended
  requests,      \* embedded image name -> number of send_message calls
  logs,          \* the error lines printed
  messages,      \* embedded image name -> the image paths of its message
  content,       \* response.content
  start_idx,     \* content.find('{')
  end_idx,       \* content.rfind('}')
  json_content,  \* content[start_idx:end_idx+1]
  environ,       \* os.environ: OPENAI_API_KEY, OPENAI_MODEL, DM_THIS_CHAT_LLM
  api_key,       \* self.api_key of the provider object
  call,          \* the arguments of send_message and what the endpoint does
  http_requests, \* the payloads POSTed to the chat-completions endpoint
  send_result,   \* how send_message ended: raised, or the LLMResponse
  argument,      \* what the command-line argument of the RAG script names
  rule_set,      \* what ./content/rules/SRD3_5 is when the RAG script starts
  page_image_dir,          \* <rule_set>/page_image
  page_image_path_cache,   \* self._page_image_path_cache
  collection,    \* the qdrant collection of page images
  batch_i,       \* i of _generate_image_embeddings
  embeddings,    \* the embeddings of the batch that was yielded
  upsert_attempts,  \* i -> calls of the body of _upsert_to_qdrant, and the result
  batches,       \* the iterations of the loop of _generate_image_embeddings so far
  stages,        \* the stages create_index of RuleSetRag has run, in order
  query_log,     \* the calls of get_page_image_paths and their results
  exit_status    \* exit status of the script, -1 while it runs

vars == <<pc, llm_provider, pageDir, embDir, manifest, image_hashes, donePdfs,
          docPages, curDoc, pageNumber, xreflist, img_index, img, nImages,
          seenInDoc, origin, todoImgs, outcome, requests, logs, messages, content,
          start_idx, end_idx, json_content, environ, api_key, call,
          http_requests, send_result, argument, rule_set, page_image_dir,
          page_image_path_cache, collection, batch_i, embeddings,
          upsert_attempts, batches, stages, query_log, exit_status>>

extractVars == <<image_hashes, donePdfs, docPages, curDoc, pageNumber, xreflist,
                 img_index, img, nImages, seenInDoc, origin>>
llmVars == <<todoImgs, outcome, requests, logs, messages>>
jsonVars == <<content, start_idx, end_idx, json_content>>
providerVars == <<environ, api_key, call, http_requests, send_result>>
ragVars == <<argument, rule_set, page_image_dir, page_image_path_cache, collection,
             batch_i, embeddings, upsert_attempts, batches, stages, query_log,
             exit_status>>
otherVars == <<providerVars, ragVars>>

EmptyMap == [x \in {} |-> <<>>]
NoImg == [examined |-> FALSE, name |-> <<>>, hash |-> "", width |-> 0,
          height |-> 0, repeat |-> FALSE]
NoManifest == [exists |-> FALSE, entries |-> {}]
OldManifest ==
  [exists |-> TRUE,
   entries |-> {[key |-> <<"o", "l", "d">>,
                 image_filename |-> <<"o", "l", "d", ".png">>,
                 keys |-> RequiredFields \cup {"image_filename"}]}]

\* The module directory before the run: never indexed, or as an earlier run
\* and its user left it (stale files, a sub-directory, an old manifest), or
\* with a sub-directory in embedded-images/ that is named like a JSON file.
ModuleDirs ==
  { [page |-> [exists |-> FALSE, entries |-> {}],
     embedded |-> [exists |-> FALSE, entries |-> {}],
     manifest |-> NoManifest],
    [page |-> [exists |-> TRUE, entries |-> OldPageEntries],
     embedded |-> [exists |-> TRUE, entries |-> OldEmbeddedEntries],
     manifest |-> OldManifest],
    [page |-> [exists |-> TRUE, entries |-> {}],
     embedded |-> [exists |-> TRUE, entries |-> OldJsonDirEntries],
     manifest |-> OldManifest] }

Put(f, k, v) == [x \in DOMAIN f \cup {k} |-> IF x = k THEN v ELSE f[x]]
Range(f) == {f[x] : x \in DOMAIN f}

\* The state after ModuleIndex(module_path): nothing processed yet, the
\* module directory as an earlier run (or nothing) left it.
InitCommon ==
  /\ image_hashes = EmptyMap
  /\ donePdfs = {}
  /\ docPages = EmptyMap
  /\ curDoc = <<>>
  /\ pageNumber = 0
  /\ xreflist = <<>>
  /\ img_index = 0
  /\ img = NoImg
  /\ nImages = 0
  /\ seenInDoc = {}
  /\ origin = EmptyMap
  /\ todoImgs = {}
  /\ outcome = EmptyMap
  /\ requests = EmptyMap
  /\ logs = {}
  /\ messages = EmptyMap

\* No provider is being constructed on its own and nothing was sent.
NoEnvValue == [set |-> FALSE, value |-> <<>>]
NoEnviron == [OPENAI_API_KEY |-> NoEnvValue, OPENAI_MODEL |-> NoEnvValue,
              DM_THIS_CHAT_LLM |-> NoEnvValue]
NoCall == [messages |-> <<>>, system_prompt |-> NoEnvValue,
           answer |-> [transport_ok |-> FALSE, status |-> 0, body |-> <<>>]]
NoResult == [kind |-> "none", content |-> "", input_tokens |-> 0, output_tokens |-> 0]
InitProviderIdle ==
  /\ environ = NoEnviron
  /\ api_key = <<>>
  /\ call = NoCall
  /\ http_requests = <<>>
  /\ send_result = NoResult

\* The rule-set RAG script is not running.
NoCollection == [exists |-> FALSE, points |-> EmptyMap]
InitRagIdle ==
  /\ argument = "none"
  /\ rule_set = "none"
  /\ page_image_dir = [exists |-> FALSE, entries |-> {}]
  /\ page_image_path_cache = <<>>
  /\ collection = NoCollection
  /\ batch_i = 0
  /\ embeddings = <<>>
  /\ upsert_attempts = EmptyMap
  /\ batches = <<>>
  /\ stages = <<>>
  /\ query_log = <<>>
  /\ exit_status = -1

Init ==
  /\ pc = "clean_page_images"
  /\ \E api_key_set \in BOOLEAN, model \in Models :
       llm_provider = InitProvider(api_key_set, model)
  /\ \E m \in ModuleDirs :
       /\ pageDir = m.page
       /\ embDir = m.embedded
       /\ manifest = m.manifest
  /\ InitCommon
  /\ content = <<>>
  /\ start_idx = -1
  /\ end_idx = -1
  /\ json_content = <<>>
  /\ InitProviderIdle
  /\ InitRagIdle

\* -------------------------------------------------------------- extractor
\* _process_pdfs, line 111
CleanPageImages ==
  /\ pc = "clean_page_images"
  /\ pageDir' = CleanDirectory(pageDir)
  /\ pc' = "clean_embedded_images"
  /\ UNCHANGED <<llm_provider, embDir, manifest, extractVars, llmVars, jsonVars, otherVars>>

\* _process_pdfs, line 112
CleanEmbeddedImages ==
  /\ pc = "clean_embedded_images"
  /\ embDir' = CleanDirectory(embDir)
  /\ pc' = "pdfs"
  /\ UNCHANGED <<llm_provider, pageDir, manifest, extractVars, llmVars, jsonVars, otherVars>>

\* _process_pdf, lines 118-122: the next PDF of the glob is opened
OpenPdf ==
  /\ pc = "pdfs"
  /\ Cardinality(donePdfs) < MaxDocs
  /\ curDoc' = StemOf(Cardinality(donePdfs) + 1)
  /\ pageNumber' = 0
  /\ xreflist' = <<>>
  /\ seenInDoc' = {}
  /\ pc' = "pages"
  /\ UNCHANGED <<llm_provider, pageDir, embDir, manifest, image_hashes, donePdfs,
                 docPages, img_index, img, nImages, origin, llmVars, jsonVars, otherVars>>

\* _process_pdf, lines 123-125: the document has another page; _save_page_image
SavePageImage ==
  /\ pc = "pages"
  /\ pageNumber < MaxPages
  /\ pageDir' = WriteFile(pageDir, PageImageName(curDoc, pageNumber), {})
  /\ img_index' = 0
  /\ img' = NoImg
  /\ pc' = "images"
  /\ UNCHANGED <<llm_provider, embDir, manifest, image_hashes, donePdfs, docPages,
                 curDoc, pageNumber, xreflist, nImages, seenInDoc, origin, llmVars,
                 jsonVars, otherVars>>

\* if width < 50 or height < 50
TooSmall(width, height) == width < MIN_DIMENSION \/ height < MIN_DIMENSION

\* the duplicate table is never consulted
IsDuplicateNever(image_hash, hashes) == FALSE

\* if image_hash in self._image_hashes
IsDuplicate(image_hash, hashes) == image_hash \in DOMAIN hashes

\* _extract_embedded_images_from_page: one iteration of the loop over image_list
ExtractImage ==
  /\ pc = "images"
  /\ nImages < MaxImages
  /\ nImages' = nImages + 1
  /\ \E xref \in Xrefs, image_hash \in Hashes, width \in Dimensions,
        height \in Dimensions, decodable \in BOOLEAN :
       LET output_filename == EmbeddedImageName(curDoc, pageNumber, img_index)
           large == ~TooSmall(width, height)
       IN /\ img' = [examined |-> TRUE, name |-> output_filename,
                     hash |-> image_hash, width |-> width, height |-> height,
                     repeat |-> large /\ image_hash \in seenInDoc]
          /\ seenInDoc' = IF large THEN seenInDoc \cup {image_hash} ELSE seenInDoc
          /\ IF xref \in Range(xreflist) \/ TooSmall(width, height)
                \/ IsDuplicate(image_hash, image_hashes)
             THEN \* continue
                  /\ img_index' = img_index + 1
                  /\ UNCHANGED <<pc, embDir, image_hashes, origin>>
             ELSE IF ~decodable
             THEN \* Image.open raises; nothing catches it before main
                  /\ pc' = "aborted"
                  /\ UNCHANGED <<img_index, embDir, image_hashes, origin>>
             ELSE /\ embDir' = WriteFile(embDir, output_filename, {image_hash})
                  /\ image_hashes' = Put(image_hashes, image_hash, output_filename)
                  /\ origin' = Put(origin, output_filename,
                                   [doc |-> curDoc, page |-> pageNumber + 1])
                  /\ img_index' = img_index + 1
                  /\ UNCHANGED pc
  /\ UNCHANGED <<llm_provider, pageDir, manifest, donePdfs, docPages, curDoc,
                 pageNumber, xreflist, llmVars, jsonVars, otherVars>>

\* the image list of the page is exhausted: the locals of
\* _extract_embedded_images_from_page go out of scope
EndPage ==
  /\ pc = "images"
  /\ pageNumber' = pageNumber + 1
  /\ img' = NoImg
  /\ img_index' = 0
  /\ pc' = "pages"
  /\ UNCHANGED <<llm_provider, pageDir, embDir, manifest, image_hashes, donePdfs,
                 docPages, curDoc, xreflist, nImages, seenInDoc, origin,
                 llmVars, jsonVars, otherVars>>

\* _process_pdf, line 128: the page just done was the last of the document
\* (a PDF has at least one page); the locals of _process_pdf go out of scope
ClosePdf ==
  /\ pc = "pages"
  /\ pageNumber >= 1
  /\ donePdfs' = donePdfs \cup {curDoc}
  /\ docPages' = Put(docPages, curDoc, pageNumber)
  /\ curDoc' = <<>>
  /\ pageNumber' = 0
  /\ seenInDoc' = {}
  /\ pc' = "pdfs"
  /\ UNCHANGED <<llm_provider, pageDir, embDir, manifest, image_hashes, xreflist,
                 img_index, img, nImages, origin, llmVars, jsonVars, otherVars>>

\* create_index, line 102: the glob is exhausted; nothing is extracted after
\* this, so the count of examined images is dropped
EndPdfs ==
  /\ pc = "pdfs"
  /\ nImages' = 0
  /\ IF llm_provider.present /\ SupportsImages(llm_provider.model)
     THEN /\ pc' = "llm"
          /\ todoImgs' = Glob(embDir, ".png")
     ELSE /\ pc' = "combine"
          /\ UNCHANGED todoImgs
  /\ UNCHANGED <<llm_provider, pageDir, embDir, manifest, image_hashes, donePdfs,
                 docPages, curDoc, pageNumber, xreflist, img_index, img, seenInDoc,
                 origin, outcome, requests, logs, messages, jsonVars, otherVars>>

\* -------------------------------------------------------------- annotator
\* f"{base_file_name}-{page_num:04d}.png", line 300
PageImagePath(base_file_name, page_num) ==
  base_file_name \o <<"-">> \o Fmt04(page_num) \o <<".png">>

\* f"{base_file_name}-{page_num-1}.png" and f"{base_file_name}-{page_num+1}.png",
\* lines 307-308
NeighbourPagePath(base_file_name, page_num) ==
  base_file_name \o <<"-">> \o Str(page_num) \o <<".png">>

\* the stem ends at the first hyphen and the page number follows it
LocateAtFirstHyphen(embedded_image_name) ==
  LET filename_parts == Split(PathStem(embedded_image_name))
      n == Len(filename_parts)
      page_num_str == filename_parts[2]
      base_file_name == filename_parts[1]
      page_num == ParseInt(page_num_str)
  IN IF n < 3 THEN [skip |-> "invalid_filename", base |-> <<>>, page_num |-> 0]
     ELSE IF page_num = -1
     THEN [skip |-> "invalid_page", base |-> base_file_name, page_num |-> 0]
     ELSE IF ~PathExists(pageDir, PageImagePath(base_file_name, page_num))
     THEN [skip |-> "page_image_not_found", base |-> base_file_name,
           page_num |-> page_num]
     ELSE [skip |-> "", base |-> base_file_name, page_num |-> page_num]

\* lines 283-304: the page image of an embedded image, or why it is skipped
Locate(embedded_image_name) ==
  LET filename_parts == Split(PathStem(embedded_image_name))
      n == Len(filename_parts)
      page_num_str == filename_parts[n - 1]
      base_file_name == Join(SubSeq(filename_parts, 1, n - 2))
      page_num == ParseInt(page_num_str)
  IN IF n < 3 THEN [skip |-> "invalid_filename", base |-> <<>>, page_num |-> 0]
     ELSE IF page_num = -1
     THEN [skip |-> "invalid_page", base |-> base_file_name, page_num |-> 0]
     ELSE IF ~PathExists(pageDir, PageImagePath(base_file_name, page_num))
     THEN [skip |-> "page_image_not_found", base |-> base_file_name,
           page_num |-> page_num]
     ELSE [skip |-> "", base |-> base_file_name, page_num |-> page_num]

\* lines 324-360: the image paths of the message, in order
MessageImages(embedded_image_name, base_file_name, page_num) ==
  LET prev_page_image_path == NeighbourPagePath(base_file_name, page_num - 1)
      next_page_image_path == NeighbourPagePath(base_file_name, page_num + 1)
  IN <<embedded_image_name, PageImagePath(base_file_name, page_num)>>
       \o (IF PathExists(pageDir, prev_page_image_path)
           THEN <<prev_page_image_path>> ELSE <<>>)
       \o (IF PathExists(pageDir, next_page_image_path)
           THEN <<next_page_image_path>> ELSE <<>>)

\* lines 394-424: how one answer of the provider ends
AnnotationOutcome(response) ==
  IF response.raised THEN "request_error"
  ELSE IF ParseResponse(response.text).ok THEN "written" ELSE "parse_error"

\* the file is opened for writing before the response is parsed
FilesAfterAnnotationOpenFirst(dir, embedded_image_name, response) ==
  IF response.raised THEN dir
  ELSE WriteFile(dir, WithSuffix(embedded_image_name, ".json"),
                 ParseResponse(response.text).keys)

\* lines 412-414: the JSON file is written only for a parsed object
FilesAfterAnnotation(dir, embedded_image_name, response) ==
  IF AnnotationOutcome(response) = "written"
  THEN WriteFile(dir, WithSuffix(embedded_image_name, ".json"),
                 ParseResponse(response.text).keys)
  ELSE dir

\* the except clauses of lines 419-424 print; a written file prints nothing
LogsAfterAnnotation(lines, embedded_image_name, response) ==
  IF AnnotationOutcome(response) = "written" THEN lines
  ELSE lines \cup {[kind |-> AnnotationOutcome(response), name |-> embedded_image_name]}

\* _process_embedded_images_with_llm: one iteration, _process_single_embedded_image
ProcessSingleEmbeddedImage ==
  /\ pc = "llm"
  /\ \E embedded_image_name \in todoImgs :
       LET at == Locate(embedded_image_name)
       IN /\ todoImgs' = todoImgs \ {embedded_image_name}
          /\ IF at.skip # ""
             THEN /\ logs' = logs \cup {[kind |-> at.skip, name |-> embedded_image_name]}
                  /\ outcome' = Put(outcome, embedded_image_name, "skipped")
                  /\ UNCHANGED <<embDir, requests, messages>>
             ELSE \E response \in Answers :
                  /\ messages' = Put(messages, embedded_image_name,
                                     MessageImages(embedded_image_name, at.base, at.page_num))
                  /\ requests' = Put(requests, embedded_image_name,
                                     (IF embedded_image_name \in DOMAIN requests
                                      THEN requests[embedded_image_name] ELSE 0) + 1)
                  /\ embDir' = FilesAfterAnnotation(embDir, embedded_image_name, response)
                  /\ logs' = LogsAfterAnnotation(logs, embedded_image_name, response)
                  /\ outcome' = Put(outcome, embedded_image_name, AnnotationOutcome(response))
  /\ UNCHANGED <<pc, llm_provider, pageDir, manifest, extractVars, jsonVars, otherVars>>

\* _process_embedded_images_with_llm returns: no image is left (or none was found)
EndLlm ==
  /\ pc = "llm"
  /\ todoImgs = {}
  /\ pc' = "combine"
  /\ UNCHANGED <<llm_provider, pageDir, embDir, manifest, extractVars, llmVars, jsonVars, otherVars>>

\* --------------------------------------------------------------- combiner
\* the loop over the JSON files ends at the first file that cannot be read
CombinedDataStopsAtError(dir) ==
  IF \E x \in dir.entries : Suffix(x.name) = ".json" /\ x.kind # "file"
  THEN {}
  ELSE {[key |-> PathStem(e.name),
         image_filename |-> WithSuffix(e.name, ".png"),
         keys |-> e.data \cup {"image_filename"}] :
          e \in {x \in dir.entries : Suffix(x.name) = ".json"}}

\* lines 445-461: the entries of the readable JSON files
CombinedData(dir) ==
  {[key |-> PathStem(e.name),
    image_filename |-> WithSuffix(e.name, ".png"),
    keys |-> e.data \cup {"image_filename"}] :
     e \in {x \in dir.entries : Suffix(x.name) = ".json" /\ x.kind = "file"}}

\* lines 434-472: nothing is written when there is no JSON file
ManifestAfterCombine(old, dir) ==
  IF Glob(dir, ".json") = {} THEN old
  ELSE [exists |-> TRUE, entries |-> CombinedData(dir)]

\* _combine_embedded_image_json_files, then create_index returns
Combine ==
  /\ pc = "combine"
  /\ manifest' = ManifestAfterCombine(manifest, embDir)
  /\ logs' = logs \cup {[kind |-> "json_file_error", name |-> e.name] :
                          e \in {x \in embDir.entries :
                                   Suffix(x.name) = ".json" /\ x.kind # "file"}}
  /\ pc' = "done"
  /\ UNCHANGED <<llm_provider, pageDir, embDir, extractVars, todoImgs, outcome,
                 requests, messages, jsonVars, otherVars>>

Next ==
  \/ CleanPageImages
  \/ CleanEmbeddedImages
  \/ OpenPdf
  \/ SavePageImage
  \/ ExtractImage
  \/ EndPage
  \/ ClosePdf
  \/ EndPdfs
  \/ ProcessSingleEmbeddedImage
  \/ EndLlm
  \/ Combine

Spec == Init /\ [][Next]_vars

\* --------------------------------------- the JSON span, over every response
\* response.content is any text of at most MaxLen characters
InitJson ==
  /\ pc = "response"
  /\ content \in Texts
  /\ start_idx = -1
  /\ end_idx = -1
  /\ json_content = <<>>
  /\ llm_provider = InitProvider(TRUE, <<"gpt-4", "o">>)
  /\ pageDir = [exists |-> TRUE, entries |-> {}]
  /\ embDir = [exists |-> TRUE, entries |-> {}]
  /\ manifest = NoManifest
  /\ InitCommon
  /\ InitProviderIdle
  /\ InitRagIdle

\* lines 401-408: find, rfind and the slice
ExtractJsonSpan ==
  /\ pc = "response"
  /\ start_idx' = Find(content, "{")
  /\ end_idx' = RFind(content, "}")
  /\ json_content' = IF SpanFound(Find(content, "{"), RFind(content, "}"))
                     THEN Slice(content, Find(content, "{"), RFind(content, "}") + 1)
                     ELSE <<>>
  /\ pc' = IF SpanFound(Find(content, "{"), RFind(content, "}"))
           THEN "span" ELSE "no_span"
  /\ UNCHANGED <<content, llm_provider, pageDir, embDir, manifest, extractVars, llmVars,
                 otherVars>>

\* line 409: json.loads of the span
LoadJsonSpan ==
  /\ pc = "span"
  /\ pc' = IF JsonValid(json_content) THEN "parsed" ELSE "decode_error"
  /\ UNCHANGED <<content, start_idx, end_idx, json_content, llm_provider, pageDir,
                 embDir, manifest, extractVars, llmVars,
                 otherVars>>

NextJson == ExtractJsonSpan \/ LoadJsonSpan

SpecJson == InitJson /\ [][NextJson]_vars

\* ------------------------------------------- the provider abstraction alone
\* An environment variable is unset (os.environ.get gives None) or set to a
\* value, which may be empty. Strings of the environment are token sequences.
EnvValues(values) ==
  {NoEnvValue} \cup {[set |-> TRUE, value |-> v] : v \in values}

Environs ==
  [OPENAI_API_KEY : EnvValues({<<>>, <<"sk">>}),
   OPENAI_MODEL : EnvValues(Models),
   DM_THIS_CHAT_LLM : EnvValues({<<"openai">>, <<"OpenAI">>, <<"claude">>})]

\* str.lower on the values the selector takes
Lower(s) == IF s = <<"OpenAI">> THEN <<"openai">> ELSE s

\* os.environ.get(name, default)
EnvGet(value, default) == IF value.set THEN value.value ELSE default

\* only an unset key is refused; an empty one is accepted
OpenAIProviderInitNoneOnly(env) ==
  IF ~env.OPENAI_API_KEY.set
  THEN [raised |-> TRUE, api_key |-> <<>>, model |-> <<>>]
  ELSE [raised |-> FALSE, api_key |-> env.OPENAI_API_KEY.value,
        model |-> EnvGet(env.OPENAI_MODEL, <<"gpt-4", "o">>)]

\* OpenAIProvider.__init__: if not self.api_key: raise ValueError
OpenAIProviderInit(env) ==
  IF ~env.OPENAI_API_KEY.set \/ env.OPENAI_API_KEY.value = <<>>
  THEN [raised |-> TRUE, api_key |-> <<>>, model |-> <<>>]
  ELSE [raised |-> FALSE, api_key |-> env.OPENAI_API_KEY.value,
        model |-> EnvGet(env.OPENAI_MODEL, <<"gpt-4", "o">>)]

\* LLMFactory.get_default_provider: both branches build an OpenAIProvider
GetDefaultProvider(env) ==
  LET provider_type == Lower(EnvGet(env.DM_THIS_CHAT_LLM, <<"openai">>))
  IN IF provider_type = <<"openai">> THEN OpenAIProviderInit(env)
     ELSE OpenAIProviderInit(env)

\* What the caller passes to send_message.
MessageLists == UNION {[1..n -> {"m1", "m2"}] : n \in 0..2}
SystemPrompts == EnvValues({<<>>, <<"sys">>})

\* What the endpoint does: the transport fails, or a final response arrives
\* with a status and a body; a body is a chat completion or anything else.
Statuses == {200, 201, 304, 404, 500}
Bodies ==
  {<<>>} \cup {<<[content |-> c, prompt_tokens |-> p, completion_tokens |-> q]>> :
                 c \in {"c1", "c2"}, p \in {1, 2}, q \in {3, 4}}
EndpointAnswers ==
  {[transport_ok |-> FALSE, status |-> 0, body |-> <<>>]}
    \cup {[transport_ok |-> TRUE, status |-> st, body |-> b] :
            st \in Statuses, b \in Bodies}

\* requests.Response.raise_for_status: HTTPError for 4xx and 5xx
RaiseForStatus(status) == 400 <= status /\ status < 600

\* LLMMessage.to_dict of a text message
ToDict(message) == [role |-> "user", content |-> <<message>>]

\* lines 196-204: the messages of the payload
FormattedMessages(message_list, system_prompt) ==
  (IF system_prompt.set /\ system_prompt.value # <<>>
   THEN <<[role |-> "system", content |-> system_prompt.value]>> ELSE <<>>)
    \o [k \in 1..Len(message_list) |-> ToDict(message_list[k])]

\* lines 219-237: what send_message does with the endpoint's answer
SendResult(answer) ==
  IF ~answer.transport_ok \/ RaiseForStatus(answer.status) \/ answer.body = <<>>
  THEN [kind |-> "raised", content |-> "", input_tokens |-> 0, output_tokens |-> 0]
  ELSE [kind |-> "returned", content |-> answer.body[1].content,
        input_tokens |-> answer.body[1].prompt_tokens,
        output_tokens |-> answer.body[1].completion_tokens]

InitProviderAlone ==
  /\ pc = "construct"
  /\ environ \in Environs
  /\ llm_provider = NoProvider
  /\ api_key = <<>>
  /\ call = NoCall
  /\ http_requests = <<>>
  /\ send_result = NoResult
  /\ pageDir = [exists |-> TRUE, entries |-> {}]
  /\ embDir = [exists |-> TRUE, entries |-> {}]
  /\ manifest = NoManifest
  /\ InitCommon
  /\ content = <<>>
  /\ start_idx = -1
  /\ end_idx = -1
  /\ json_content = <<>>
  /\ InitRagIdle

\* LLMFactory.get_default_provider(): the object, or the ValueError
ConstructProvider ==
  /\ pc = "construct"
  /\ LET made == GetDefaultProvider(environ)
     IN IF made.raised
        THEN /\ pc' = "config_error"
             /\ UNCHANGED <<llm_provider, api_key>>
        ELSE /\ pc' = "constructed"
             /\ llm_provider' = [present |-> TRUE, model |-> made.model]
             /\ api_key' = made.api_key
  /\ UNCHANGED <<pageDir, embDir, manifest, extractVars, llmVars, jsonVars, environ,
                 call, http_requests, send_result, ragVars>>

\* OpenAIProvider.send_message
SendMessage ==
  /\ pc = "constructed"
  /\ \E messages_in \in MessageLists, system_prompt \in SystemPrompts,
        answer \in EndpointAnswers :
       /\ call' = [messages |-> messages_in, system_prompt |-> system_prompt,
                   answer |-> answer]
       /\ http_requests' = Append(http_requests,
            [model |-> llm_provider.model,
             messages |-> FormattedMessages(messages_in, system_prompt),
             authorization |-> api_key])
       /\ send_result' = SendResult(answer)
  /\ pc' = "sent"
  /\ UNCHANGED <<llm_provider, pageDir, embDir, manifest, extractVars, llmVars,
                 jsonVars, environ, api_key, ragVars>>

NextProvider == ConstructProvider \/ SendMessage

SpecProvider == InitProviderAlone /\ [][NextProvider]_vars

\* ------------------------------------------------ the rule-set RAG script
\* (src/util/rule-set/colqwen2.py)
\* The names page_image/ may hold: p5, p10, p15, ... (str order is not the
\* numeric order).
RagFileName(k) == <<"p">> \o Str(5 * k)
RagFileNames == {RagFileName(k) : k \in 1..MaxPageImages}

\* ord() of a character of a name
Ord(c) == IF IsDigit(c) THEN DigitValue(c) ELSE 10

\* s < t for str
StrLess(s, t) ==
  \E k \in 1..(Len(s) + 1) :
    /\ k <= Len(t)
    /\ \A j \in 1..(k - 1) : s[j] = t[j]
    /\ (k > Len(s) \/ Ord(s[k]) < Ord(t[k]))

RECURSIVE SortedList(_)
\* sorted([...]) of a set of str
SortedList(names) ==
  IF names = {} THEN <<>>
  ELSE LET least == CHOOSE n \in names : \A m \in names \ {n} : StrLess(n, m)
       IN <<least>> \o SortedList(names \ {least})

\* The page_image/ directories an earlier run may have left: every name is
\* absent, a PNG, or a file Image.open cannot read.
PageImageDirs ==
  {[exists |-> TRUE,
    entries |-> {Entry(n, "file", 0, {f[n]}) :
                   n \in {m \in RagFileNames : f[m] # "absent"}}] :
     f \in [RagFileNames -> {"absent", "png", "corrupt"}]}
    \cup {[exists |-> FALSE, entries |-> {}]}

\* The multi-vector the model computes from an image: what it is computed of.
Embedding(name) == [of |-> name]

\* A collection an earlier run left behind.
OldCollection ==
  [exists |-> TRUE,
   points |-> [id \in {0, MaxPageImages + 1} |->
                 [vector |-> Embedding(RagFileName(1)), source |-> RagFileName(1),
                  earlier |-> TRUE]]]

\* lines 101-124: delete_collection when it exists, then create_collection
RecreateCollection(old) == [exists |-> TRUE, points |-> EmptyMap]

\* Image.open(path) succeeds
Loadable(path) == (Lookup(page_image_dir, path)).data = {"png"}

\* only full batches are taken: the tail shorter than BATCH_SIZE is dropped
BatchPathsFullOnly(i, image_file_paths) ==
  IF i + BATCH_SIZE <= Len(image_file_paths)
  THEN SubSeq(image_file_paths, i + 1, i + BATCH_SIZE)
  ELSE <<>>

\* lines 140-146: the paths of indices i .. min(i + BATCH_SIZE, len) - 1
BatchPaths(i, image_file_paths) ==
  SubSeq(image_file_paths, i + 1,
         IF i + BATCH_SIZE < Len(image_file_paths)
         THEN i + BATCH_SIZE ELSE Len(image_file_paths))

\* lines 167-179: the points of a batch; j enumerates the embeddings
Points(i, image_file_paths, image_embeddings) ==
  [id \in {i + j : j \in 0..(Len(image_embeddings) - 1)} |->
     [vector |-> image_embeddings[id - i + 1],
      source |-> image_file_paths[id + 1],
      earlier |-> FALSE]]

\* QdrantClient.upsert: points are inserted or overwritten by id
Upsert(old, new) ==
  [old EXCEPT !.points = [id \in DOMAIN old.points \cup DOMAIN new |->
                            IF id \in DOMAIN new THEN new[id] ELSE old.points[id]]]

\* lines 181-190: the body returns True or False; it never raises
UpsertResult(client_ok) == IF client_ok THEN "True" ELSE "False"

\* stamina.retry(on=Exception, attempts=3): the body is called again only
\* when it raised and attempts remain
StaminaRetries(result, attempts) == result = "raised" /\ attempts < UPSERT_ATTEMPTS

\* The similarity of a query and a stored multi-vector (MAX_SIM over cosine).
Queries == {"q1", "q2"}
TopKs == {1, MaxPageImages}
Score(query_text, vector) ==
  IF query_text = "q1" THEN DigitsValue(Tail(vector.of))
  ELSE 0 - DigitsValue(Tail(vector.of))

RECURSIVE Ranked(_, _, _)
\* the ids of the points by decreasing score
Ranked(ids, points, query_text) ==
  IF ids = {} THEN <<>>
  ELSE LET best == CHOOSE i \in ids : \A j \in ids \ {i} :
                     \/ Score(query_text, points[i].vector)
                          > Score(query_text, points[j].vector)
                     \/ /\ Score(query_text, points[i].vector)
                            = Score(query_text, points[j].vector)
                        /\ i < j
       IN <<best>> \o Ranked(ids \ {best}, points, query_text)

\* the ranking flips with every call already made
QueryPointsByCallParity(points, query_text, top_k) ==
  LET all == Ranked(DOMAIN points, points, query_text)
      order == IF Len(query_log) % 2 = 0 THEN all
               ELSE [k \in 1..Len(all) |-> all[Len(all) + 1 - k]]
  IN SubSeq(order, 1, IF top_k < Len(order) THEN top_k ELSE Len(order))

\* lines 219-223: query_points(..., limit=top_k) and the ids of its points
QueryPoints(points, query_text, top_k) ==
  LET all == Ranked(DOMAIN points, points, query_text)
  IN SubSeq(all, 1, IF top_k < Len(all) THEN top_k ELSE Len(all))

\* line 224
PathsOfRows(row_ids, cache) == [k \in 1..Len(row_ids) |-> cache[row_ids[k] + 1]]

InitRag ==
  /\ pc = "rag_start"
  /\ argument \in {"directory", "file"}
  /\ rule_set \in {"directory", "missing"}
  /\ IF rule_set = "directory"
     THEN /\ page_image_dir \in PageImageDirs
          /\ collection \in {NoCollection, OldCollection}
     ELSE /\ page_image_dir = [exists |-> FALSE, entries |-> {}]
          /\ collection = NoCollection
  /\ page_image_path_cache = <<>>
  /\ batch_i = 0
  /\ embeddings = <<>>
  /\ upsert_attempts = EmptyMap
  /\ batches = <<>>
  /\ stages = <<>>
  /\ query_log = <<>>
  /\ exit_status = -1
  /\ llm_provider = NoProvider
  /\ pageDir = [exists |-> TRUE, entries |-> {}]
  /\ embDir = [exists |-> TRUE, entries |-> {}]
  /\ manifest = NoManifest
  /\ InitCommon
  /\ content = <<>>
  /\ start_idx = -1
  /\ end_idx = -1
  /\ json_content = <<>>
  /\ InitProviderIdle

\* line 227: RuleSetRag(PosixPath('./content/rules/SRD3_5')); sys.argv is not
\* read. mkdir raises when the rule-set path is no directory: the exception
\* is uncaught, the interpreter prints the traceback and exits with status 1.
RagConstruct ==
  /\ pc = "rag_start"
  /\ IF rule_set = "directory"
     THEN /\ page_image_dir' = [page_image_dir EXCEPT !.exists = TRUE]
          /\ page_image_path_cache' = SortedList(Names(page_image_dir))
          /\ pc' = "create_collection"
          /\ UNCHANGED exit_status
     ELSE /\ pc' = "exited"
          /\ exit_status' = 1
          /\ UNCHANGED <<page_image_dir, page_image_path_cache>>
  /\ UNCHANGED <<llm_provider, pageDir, embDir, manifest, extractVars, llmVars,
                 jsonVars, providerVars, argument, rule_set, collection, batch_i,
                 embeddings, upsert_attempts, batches, stages, query_log>>

\* create_index, lines 73-74: _create_page_images is commented out;
\* _create_page_images_collection
CreatePageImagesCollection ==
  /\ pc = "create_collection"
  /\ collection' = RecreateCollection(collection)
  /\ stages' = Append(stages, "create_page_images_collection")
  /\ batch_i' = 0
  /\ pc' = "generate"
  /\ UNCHANGED <<llm_provider, pageDir, embDir, manifest, extractVars, llmVars,
                 jsonVars, providerVars, argument, rule_set, page_image_dir,
                 page_image_path_cache, embeddings, upsert_attempts, batches,
                 query_log, exit_status>>

\* _generate_image_embeddings: one iteration of the loop over
\* range(0, len(image_file_paths), BATCH_SIZE), up to its yield or continue
GenerateImageEmbeddings ==
  /\ pc = "generate"
  /\ batch_i < Len(page_image_path_cache)
  /\ LET paths == BatchPaths(batch_i, page_image_path_cache)
         batch_images == SelectSeq(paths, Loadable)
     IN /\ logs' = logs \cup {[kind |-> "image_load_error", name |-> paths[k]] :
                                k \in {j \in 1..Len(paths) : ~Loadable(paths[j])}}
        /\ batches' = Append(batches,
                              [i |-> batch_i,
                               indices |-> {batch_i + k - 1 : k \in 1..Len(paths)},
                               embedded |-> batch_images])
        /\ IF batch_images = <<>>
           THEN /\ batch_i' = batch_i + BATCH_SIZE
                /\ UNCHANGED <<pc, embeddings>>
           ELSE /\ embeddings' = [k \in 1..Len(batch_images) |->
                                    Embedding(batch_images[k])]
                /\ pc' = "upsert"
                /\ UNCHANGED batch_i
  /\ UNCHANGED <<llm_provider, pageDir, embDir, manifest, extractVars, todoImgs,
                 outcome, requests, messages, jsonVars, providerVars, argument,
                 rule_set, page_image_dir, page_image_path_cache, collection,
                 upsert_attempts, stages, query_log, exit_status>>

\* _index_page_image_embeddings, line 129: _upsert_to_qdrant under
\* stamina.retry; the return value is discarded and the generator resumes
UpsertToQdrant ==
  /\ pc = "upsert"
  /\ \E client_ok \in BOOLEAN :
       LET n == (IF batch_i \in DOMAIN upsert_attempts
                 THEN upsert_attempts[batch_i].attempts ELSE 0) + 1
           result == UpsertResult(client_ok)
       IN /\ collection' = IF client_ok
                           THEN Upsert(collection,
                                       Points(batch_i, page_image_path_cache, embeddings))
                           ELSE collection
          /\ logs' = IF client_ok THEN logs
                     ELSE logs \cup {[kind |-> "upsert_error", name |-> Str(batch_i)]}
          /\ upsert_attempts' = Put(upsert_attempts, batch_i,
                                    [attempts |-> n, result |-> result])
          /\ IF StaminaRetries(result, n)
             THEN UNCHANGED <<pc, batch_i, embeddings>>
             ELSE /\ pc' = "generate"
                  /\ batch_i' = batch_i + BATCH_SIZE
                  /\ embeddings' = <<>>
  /\ UNCHANGED <<llm_provider, pageDir, embDir, manifest, extractVars, todoImgs,
                 outcome, requests, messages, jsonVars, providerVars, argument,
                 rule_set, page_image_dir, page_image_path_cache, batches, stages,
                 query_log, exit_status>>

\* _index_page_image_embeddings, lines 131-134: the generator is exhausted;
\* update_collection; create_index returns and the query loop starts
UpdateCollection ==
  /\ pc = "generate"
  /\ batch_i >= Len(page_image_path_cache)
  /\ stages' = Append(stages, "index_page_image_embeddings")
  /\ batch_i' = 0
  /\ pc' = "query"
  /\ UNCHANGED <<llm_provider, pageDir, embDir, manifest, extractVars, llmVars,
                 jsonVars, providerVars, argument, rule_set, page_image_dir,
                 page_image_path_cache, collection, embeddings, upsert_attempts,
                 batches, query_log, exit_status>>

\* lines 235-239: a query is read; get_page_image_paths
GetPageImagePaths ==
  /\ pc = "query"
  /\ Len(query_log) < MaxQueries
  /\ \E query_text \in Queries, top_k \in TopKs :
       query_log' = Append(query_log,
         [query_text |-> query_text, top_k |-> top_k,
          result |-> PathsOfRows(QueryPoints(collection.points, query_text, top_k),
                                 page_image_path_cache)])
  /\ UNCHANGED <<pc, llm_provider, pageDir, embDir, manifest, extractVars, llmVars,
                 jsonVars, providerVars, argument, rule_set, page_image_dir,
                 page_image_path_cache, collection, batch_i, embeddings,
                 upsert_attempts, batches, stages, exit_status>>

\* lines 236-244: an empty query or the end of the input ends the script
EndOfInput ==
  /\ pc = "query"
  /\ exit_status' = 0
  /\ pc' = "exited"
  /\ UNCHANGED <<llm_provider, pageDir, embDir, manifest, extractVars, llmVars,
                 jsonVars, providerVars, argument, rule_set, page_image_dir,
                 page_image_path_cache, collection, batch_i, embeddings,
                 upsert_attempts, batches, stages, query_log>>

NextRag ==
  \/ RagConstruct
  \/ CreatePageImagesCollection
  \/ GenerateImageEmbeddings
  \/ UpsertToQdrant
  \/ UpdateCollection
  \/ GetPageImagePaths
  \/ EndOfInput

SpecRag == InitRag /\ [][NextRag]_vars

\* The script is one thread that runs on its own up to the query loop: no
\* step of the construction or of create_index waits for anything.
RagIndexingStep ==
  \/ RagConstruct
  \/ CreatePageImagesCollection
  \/ GenerateImageEmbeddings
  \/ UpsertToQdrant
  \/ UpdateCollection

FairSpecRag == SpecRag /\ WF_vars(RagIndexingStep)

\* --------------------------------------- file names, over stems and pages
\* The stems of PDF files: letters, digits and hyphens in any place.
StemAlphabet == {"a", "1", "-"}
NameStems == UNION {[1..n -> StemAlphabet] : n \in 1..MaxStemLen}
\* page.number + 1 and img_index + 1 at the edges of the four-digit format
PageNumbers == {1, 9, 10, 999, 1000, 9999}
ImageNumbers == {1, 10, 9999}

InitNames ==
  /\ pc = "name"
  /\ pageDir = [exists |-> TRUE, entries |-> {}]
  /\ embDir = [exists |-> TRUE, entries |-> {}]
  /\ manifest = NoManifest
  /\ llm_provider = InitProvider(TRUE, <<"gpt-4", "o">>)
  /\ image_hashes = EmptyMap
  /\ donePdfs = {}
  /\ docPages = EmptyMap
  /\ curDoc \in NameStems
  /\ pageNumber \in {n - 1 : n \in PageNumbers}
  /\ xreflist = <<>>
  /\ img_index \in {n - 1 : n \in ImageNumbers}
  /\ img = NoImg
  /\ nImages = 0
  /\ seenInDoc = {}
  /\ origin = EmptyMap
  /\ todoImgs = {}
  /\ outcome = EmptyMap
  /\ requests = EmptyMap
  /\ logs = {}
  /\ messages = EmptyMap
  /\ content = <<>>
  /\ start_idx = -1
  /\ end_idx = -1
  /\ json_content = <<>>
  /\ InitProviderIdle
  /\ InitRagIdle

\* _save_page_image, lines 130-132, and lines 236-241: the page image and an
\* embedded image of the page are written under their names
WriteNames ==
  /\ pc = "name"
  /\ pageDir' = WriteFile(pageDir, PageImageName(curDoc, pageNumber), {})
  /\ embDir' = WriteFile(embDir, EmbeddedImageName(curDoc, pageNumber, img_index), {"h1"})
  /\ todoImgs' = {EmbeddedImageName(curDoc, pageNumber, img_index)}
  /\ pc' = "named"
  /\ UNCHANGED <<llm_provider, manifest, extractVars, outcome, requests, logs,
                 messages, jsonVars, otherVars>>

\* _process_single_embedded_image, lines 281-360: the file name is parsed and
\* the images of the message are collected
ParseFileName ==
  /\ pc = "named"
  /\ \E embedded_image_name \in todoImgs :
       LET at == Locate(embedded_image_name)
       IN /\ todoImgs' = todoImgs \ {embedded_image_name}
          /\ IF at.skip # ""
             THEN /\ logs' = logs \cup {[kind |-> at.skip, name |-> embedded_image_name]}
                  /\ UNCHANGED messages
             ELSE /\ messages' = Put(messages, embedded_image_name,
                                     MessageImages(embedded_image_name, at.base, at.page_num))
                  /\ UNCHANGED logs
  /\ pc' = "name_parsed"
  /\ UNCHANGED <<llm_provider, pageDir, embDir, manifest, extractVars, outcome,
                 requests, jsonVars, otherVars>>

NextNames == WriteNames \/ ParseFileName

SpecNames == InitNames /\ [][NextNames]_vars

\* ================================================================ claims
\* The name the data model gives the page image of page p (1-based) of a
\* document: <stem>-<p zero-padded to four digits>.png, for p in 1..9999.
ExpectedPageName(stem, p) ==
  stem \o <<"-", Digit((p \div 1000) % 10), Digit((p \div 100) % 10),
            Digit((p \div 10) % 10), Digit(p % 10), ".png">>

JsonNameOf(embedded_image_name) ==
  SubSeq(embedded_image_name, 1, Len(embedded_image_name) - 1) \o <<".json">>

HashOf(embedded_image_name) == (Lookup(embDir, embedded_image_name)).data

ExtractionDone == pc \in {"llm", "combine", "done"}

\* C1: within one document, of the embedded images (both dimensions at least
\* 50) that share a content hash only the first met in page/image-list order
\* is written to embedded-images/: no two files of one document hold the same
\* hash, and an image whose hash was already met in its document writes none.
C1_OnlyFirstOfEachHashPerDocument ==
  /\ \A a, b \in DOMAIN origin :
       (origin[a].doc = origin[b].doc /\ HashOf(a) = HashOf(b)) => a = b
  /\ (img.examined /\ img.repeat) => img.name \notin Names(embDir)

\* C1 witness: a large image repeats the hash of a file already written from
\* the same document and has been examined.
C1_Witness ==
  /\ img.examined /\ img.repeat
  /\ \E a \in DOMAIN origin : origin[a].doc = curDoc /\ HashOf(a) = {img.hash}

\* C2: the duplicate filter is scoped per document: an image is discarded as
\* a duplicate only of a file persisted from the same PDF, never of one
\* persisted from a PDF processed earlier in the run.
C2_DuplicateFilterPerDocument ==
  (/\ img.examined
   /\ img.width >= 50 /\ img.height >= 50
   /\ img.hash \in DOMAIN image_hashes
   /\ image_hashes[img.hash] # img.name)
    => origin[image_hashes[img.hash]].doc = curDoc

\* C3: an image narrower or lower than 50 writes no file and records no hash;
\* an image at least 50 wide and high that is not a duplicate is written.
C3_SizeFilter ==
  img.examined =>
    /\ (img.width < 50 \/ img.height < 50) =>
         /\ img.name \notin Names(embDir)
         /\ img.name \notin Range(image_hashes)
    /\ (/\ img.width >= 50 /\ img.height >= 50
        /\ ~(img.hash \in DOMAIN image_hashes /\ image_hashes[img.hash] # img.name))
         => img.name \in Names(embDir)

\* C4: once _process_pdf has returned for a document with N pages, page-images/
\* holds the files <stem>-0001.png .. <stem>-<N>.png of that document, each
\* written exactly once; between documents the files of page-images/ are
\* exactly those of the documents processed, and no page image is ever
\* written twice.
C4_OnePageImagePerPage ==
  /\ \A d \in donePdfs : \A p \in 1..docPages[d] :
       \E e \in pageDir.entries :
         e.name = ExpectedPageName(d, p) /\ e.kind = "file" /\ e.writes = 1
  /\ (pc = "pdfs" \/ ExtractionDone) =>
       {e.name : e \in {x \in pageDir.entries : x.kind = "file"}}
         = UNION {{ExpectedPageName(d, p) : p \in 1..docPages[d]} : d \in donePdfs}
  /\ \A e \in pageDir.entries : e.writes <= 1

\* C4 witness: two documents are done, one of them with at least two pages.
C4_Witness ==
  /\ pc = "pdfs"
  /\ Cardinality(donePdfs) >= 2
  /\ \E d \in donePdfs : docPages[d] >= 2
  /\ \A d \in donePdfs : docPages[d] >= 1

\* C5 (as stated): after _process_pdfs both directories exist and every entry
\* of either was produced by this run, whatever kind of child it is.
C5_OnlyEntriesOfThisRun ==
  ExtractionDone =>
    /\ pageDir.exists /\ embDir.exists
    /\ \A e \in pageDir.entries \cup embDir.entries : e.writes >= 1

\* C5 (amended): after _process_pdfs both directories exist and every file in
\* either was written by this run; a child that is not a file is left alone.
C5_OnlyFilesOfThisRun ==
  ExtractionDone =>
    /\ pageDir.exists /\ embDir.exists
    /\ \A e \in pageDir.entries \cup embDir.entries :
         e.kind = "file" => e.writes >= 1

\* C5 witness: the run ended in directories that held entries before it: the
\* sub-directory is still there, beside files this run wrote.
C5_Witness ==
  /\ pc = "done"
  /\ \E e \in embDir.entries : e.kind = "dir" /\ e.writes = 0
  /\ \E e \in embDir.entries : e.kind = "file"
  /\ \E e \in pageDir.entries : e.kind = "file"

\* C6: the message of an embedded image of page p holds the page image of
\* page p, that of page p-1 when the document has a page p-1, and that of
\* page p+1 when the document has a page p+1.
C6_MessageHasNeighbourPages ==
  \A n \in DOMAIN messages :
    LET d == origin[n].doc
        p == origin[n].page
        sent == Range(messages[n])
    IN /\ ExpectedPageName(d, p) \in sent
       /\ p - 1 >= 1 => ExpectedPageName(d, p - 1) \in sent
       /\ p + 1 <= docPages[d] => ExpectedPageName(d, p + 1) \in sent

\* The first balanced {...} span of a text: from the first "{" to the "}"
\* that closes it; <<>> when the text has no such span.
FirstBalancedSpan(text) ==
  LET opens == {i \in 1..Len(text) : text[i] = "{"}
  IN IF opens = {} THEN <<>>
     ELSE LET first == CHOOSE i \in opens : \A j \in opens : i <= j
              closes == {i \in first..Len(text) :
                           Depth(text, i) = Depth(text, first - 1)}
          IN IF closes = {} THEN <<>>
             ELSE SubSeq(text, first, CHOOSE i \in closes : \A j \in closes : i <= j)

SpanTaken == pc \in {"span", "parsed", "decode_error"}

\* C7 (as stated): the substring handed to json.loads is the first balanced
\* {...} span of the response text.
C7_ParsesFirstBalancedSpan ==
  SpanTaken => json_content = FirstBalancedSpan(content)

\* C7 (amended): the substring handed to json.loads runs from the first "{"
\* of the text to its last "}", every brace in between included; no
\* substring is taken exactly when no "}" follows the first "{".
C7_ParsesFirstBraceToLastBrace ==
  /\ SpanTaken =>
       /\ content[start_idx + 1] = "{"
       /\ \A i \in 1..start_idx : content[i] # "{"
       /\ content[end_idx + 1] = "}"
       /\ \A i \in (end_idx + 2)..Len(content) : content[i] # "}"
       /\ json_content = SubSeq(content, start_idx + 1, end_idx + 1)
  /\ pc = "no_span" =>
       ~\E i, j \in 1..Len(content) : i < j /\ content[i] = "{" /\ content[j] = "}"

\* C7 witness: a span was taken that is longer than the first balanced span.
C7_Witness ==
  /\ SpanTaken
  /\ FirstBalancedSpan(content) # <<>>
  /\ Len(json_content) > Len(FirstBalancedSpan(content))

\* C8: an image whose request raised or whose response did not parse has its
\* error logged, saw exactly one request, and has no JSON file; no image gets
\* more than one request; and when the annotator returns, every embedded
\* image has been visited.
C8_FailedAnnotationSkipsImage ==
  /\ \A n \in DOMAIN requests : requests[n] <= 1
  /\ \A n \in DOMAIN outcome :
       outcome[n] \in {"request_error", "parse_error"} =>
         /\ [kind |-> outcome[n], name |-> n] \in logs
         /\ n \in DOMAIN requests
         /\ JsonNameOf(n) \notin Names(embDir)
  /\ (pc \in {"combine", "done"} /\ llm_provider.present
        /\ SupportsImages(llm_provider.model)) =>
       \A e \in embDir.entries : Suffix(e.name) = ".png" => e.name \in DOMAIN outcome

\* C8 witness: the run is over; the request of one image raised, the
\* response of another did not parse, both are logged and neither has a file.
C8_Witness ==
  /\ pc = "done"
  /\ \E a, b \in DOMAIN outcome :
       /\ outcome[a] = "request_error"
       /\ outcome[b] = "parse_error"
       /\ {[kind |-> "request_error", name |-> a],
           [kind |-> "parse_error", name |-> b]} \subseteq logs

\* C9: every embedded image with a written annotation has a JSON file of the
\* same stem in embedded-images/ whose object holds every required field.
C9_AnnotationHasRequiredFields ==
  \A n \in DOMAIN outcome :
    outcome[n] = "written" =>
      \E e \in embDir.entries :
        e.name = JsonNameOf(n) /\ e.kind = "file" /\ RequiredFields \subseteq e.data

\* C10: after create_index the manifest holds one entry per image annotated
\* in this run, keyed by the stem, with image_filename <stem>.png, and no
\* other entry (none at all when nothing was annotated).
C10_ManifestMatchesAnnotations ==
  pc = "done" =>
    {[key |-> e.key, image_filename |-> e.image_filename] : e \in manifest.entries}
      = {[key |-> SubSeq(n, 1, Len(n) - 1), image_filename |-> n] :
           n \in {x \in DOMAIN outcome : outcome[x] = "written"}}

\* C11: after the combiner, every *.json child of embedded-images/ that cannot
\* be read has its error logged and no manifest entry; every readable JSON
\* file has its entry (keyed by its stem, naming <stem>.png); the manifest
\* was written, with one entry per readable file; the combiner always returns.
C11_UnreadableJsonIsSkipped ==
  pc = "done" =>
    LET json == {e \in embDir.entries : Suffix(e.name) = ".json"}
        bad == {e \in json : e.kind # "file"}
        good == {e \in json : e.kind = "file"}
    IN /\ \A e \in bad :
            /\ [kind |-> "json_file_error", name |-> e.name] \in logs
            /\ \A m \in manifest.entries :
                 m.key # SubSeq(e.name, 1, Len(e.name) - 1)
       /\ \A e \in good :
            \E m \in manifest.entries :
              /\ m.key = SubSeq(e.name, 1, Len(e.name) - 1)
              /\ m.image_filename = SubSeq(e.name, 1, Len(e.name) - 1) \o <<".png">>
       /\ json # {} =>
            /\ manifest.exists
            /\ Cardinality(manifest.entries) = Cardinality(good)
            /\ \A m \in manifest.entries : m.key # <<"o", "l", "d">>

\* C11 witness: the run is over; embedded-images/ holds an unreadable *.json
\* child, whose error is logged, beside an annotation that is in the manifest.
C11_Witness ==
  /\ pc = "done"
  /\ \E e \in embDir.entries :
       /\ Suffix(e.name) = ".json" /\ e.kind # "file"
       /\ [kind |-> "json_file_error", name |-> e.name] \in logs
  /\ \E e \in embDir.entries :
       /\ Suffix(e.name) = ".json" /\ e.kind = "file"
       /\ \E m \in manifest.entries : m.key = SubSeq(e.name, 1, Len(e.name) - 1)

\* The batch starting at index b has left _upsert_to_qdrant.
UpsertOver(b) == b \in DOMAIN upsert_attempts /\ ~(pc = "upsert" /\ batch_i = b)

\* C12: a batch whose upsert failed is upserted again, up to three attempts
\* in all: a batch that is left with a failed upsert has had all three
\* attempts (so one whose first or second attempt failed was tried again).
C12_FailedUpsertIsRetried ==
  \A b \in DOMAIN upsert_attempts :
    (UpsertOver(b) /\ upsert_attempts[b].result # "True")
      => upsert_attempts[b].attempts = UPSERT_ATTEMPTS

\* C13: a batch is reported failed ("Error during upsert") only after the
\* last of the three attempts, never while attempts remain.
C13_FailedBatchReportedAfterLastAttempt ==
  \A b \in DOMAIN upsert_attempts :
    [kind |-> "upsert_error", name |-> Str(b)] \in logs
      => /\ upsert_attempts[b].attempts = UPSERT_ATTEMPTS
         /\ upsert_attempts[b].result = "False"

\* C14: every point of the collection has as id the index, in the sorted
\* path cache, of the image its vector was computed from (and names that
\* path as its source), and every query result lists, in ranked order, the
\* paths of the images whose vectors matched.
C14_PointIdIsCacheIndex ==
  /\ \A id \in DOMAIN collection.points :
       ~collection.points[id].earlier =>
         /\ id < Len(page_image_path_cache)
         /\ collection.points[id].vector = [of |-> page_image_path_cache[id + 1]]
         /\ collection.points[id].source = page_image_path_cache[id + 1]
  /\ \A q \in 1..Len(query_log) :
       LET row_ids == QueryPoints(collection.points, query_log[q].query_text,
                                  query_log[q].top_k)
       IN query_log[q].result
            = [k \in 1..Len(row_ids) |-> collection.points[row_ids[k]].vector.of]

WellFormed(answer) == answer.transport_ok /\ answer.body # <<>>

\* C16: constructing the provider with OPENAI_API_KEY unset or empty raises
\* at construction, whatever DM_THIS_CHAT_LLM holds: no provider object
\* exists then and no request was sent; a provider object that exists holds
\* the non-empty key of the environment.
C16_MissingKeyFailsAtConstruction ==
  /\ llm_provider.present =>
       /\ api_key # <<>>
       /\ environ.OPENAI_API_KEY.set
       /\ api_key = environ.OPENAI_API_KEY.value
  /\ (~environ.OPENAI_API_KEY.set \/ environ.OPENAI_API_KEY.value = <<>>) =>
       /\ ~llm_provider.present
       /\ pc \in {"construct", "config_error"}
       /\ http_requests = <<>>
  /\ pc = "config_error" => (~llm_provider.present /\ http_requests = <<>>)
  /\ pc = "construct" => ~llm_provider.present

\* C16 witness: construction raised for a key that is set but empty, with
\* the provider selector naming a provider other than openai.
C16_Witness ==
  /\ pc = "config_error"
  /\ environ.OPENAI_API_KEY.set
  /\ environ.OPENAI_API_KEY.value = <<>>
  /\ environ.DM_THIS_CHAT_LLM.set
  /\ environ.DM_THIS_CHAT_LLM.value = <<"claude">>

\* C17: send_message raises when the transport fails and when the status of
\* the response is not 2xx; for a 2xx chat completion it returns the content
\* with the prompt and completion token counts; the request it sent holds
\* the system prompt (when one was given) first, then the caller's messages
\* in their order.
C17_RaisesUnlessSuccess ==
  pc = "sent" =>
    LET answer == call.answer
        success == answer.transport_ok /\ answer.status \in 200..299
        sent == http_requests[Len(http_requests)].messages
        given == call.system_prompt.set /\ call.system_prompt.value # <<>>
        offset == IF given THEN 1 ELSE 0
    IN /\ ~success => send_result.kind = "raised"
       /\ (success /\ WellFormed(answer)) =>
            /\ send_result.kind = "returned"
            /\ send_result.content = answer.body[1].content
            /\ send_result.input_tokens = answer.body[1].prompt_tokens
            /\ send_result.output_tokens = answer.body[1].completion_tokens
       /\ Len(sent) = Len(call.messages) + offset
       /\ given => sent[1] = [role |-> "system", content |-> call.system_prompt.value]
       /\ \A k \in 1..Len(call.messages) :
            sent[k + offset] = [role |-> "user", content |-> <<call.messages[k]>>]

\* C18: the RAG script, given an argument that does not name a directory,
\* runs no stage (it touches neither page_image/ nor the collection) and
\* exits with status 1; and when an exception escapes (the rule-set path is
\* no directory) it exits with status 1.
C18_NonDirectoryArgumentExits ==
  /\ argument = "file" =>
       /\ pc \in {"rag_start", "exited"}
       /\ pc = "exited" => exit_status = 1
  /\ (rule_set = "missing" /\ pc = "exited") => exit_status = 1

\* C19: no failure of one item ends the run: the extractor never aborts
\* (an image that cannot be decoded is skipped and the next one examined),
\* and every embedded image whose annotation failed is logged and left
\* behind while the annotator goes on to the others.
C19_ItemErrorNeverAborts ==
  /\ pc # "aborted"
  /\ \A n \in DOMAIN outcome :
       outcome[n] # "written" => \E l \in logs : l.name = n
  /\ pc \in {"combine", "done"} => todoImgs = {}

\* C20: when create_index of RuleSetRag has returned, it has rendered the
\* page images, then recreated the collection, then indexed, in that order;
\* the collection holds no point of an earlier run; and the path cache is
\* the sorted list of the page images this run rendered.
C20_RendersThenRecreatesThenUpserts ==
  (pc = "query" \/ (pc = "exited" /\ exit_status = 0)) =>
    /\ stages = <<"create_page_images", "create_page_images_collection",
                  "index_page_image_embeddings">>
    /\ \A id \in DOMAIN collection.points : ~collection.points[id].earlier
    /\ page_image_path_cache
         = SortedList({e.name : e \in {x \in page_image_dir.entries : x.writes >= 1}})

\* Four decimal digits of n, for n in 0..9999.
FourDigits(n) ==
  <<Digit((n \div 1000) % 10), Digit((n \div 100) % 10), Digit((n \div 10) % 10),
    Digit(n % 10)>>

\* C21: for the embedded image <stem>-<p:04d>-<idx:04d>.png written for page
\* p (1..9999) of a document, whatever hyphens the stem holds, the annotator
\* recovers that stem and that page number from the file name, skips
\* nothing, and the page-image name it derives is the name the extractor
\* wrote for page p.
C21_FileNameRoundTrip ==
  pc = "name_parsed" =>
    LET name == curDoc \o <<"-">> \o FourDigits(pageNumber + 1) \o <<"-">>
                  \o FourDigits(img_index + 1) \o <<".png">>
        at == Locate(name)
    IN /\ Names(embDir) = {name}
       /\ at.skip = ""
       /\ at.base = curDoc
       /\ at.page_num = pageNumber + 1
       /\ PageImagePath(at.base, at.page_num) = ExpectedPageName(curDoc, pageNumber + 1)
       /\ Names(pageDir) = {ExpectedPageName(curDoc, pageNumber + 1)}
       /\ logs = {}
       /\ name \in DOMAIN messages
       /\ messages[name][2] = ExpectedPageName(curDoc, pageNumber + 1)

\* C21 witness: the name of an image of page 9999 of a document whose stem
\* holds a hyphen between two other characters was parsed.
C21_Witness ==
  /\ pc = "name_parsed"
  /\ Len(curDoc) = 3 /\ curDoc[2] = "-" /\ curDoc[1] # "-" /\ curDoc[3] = "1"
  /\ pageNumber + 1 = 9999
  /\ messages # EmptyMap

\* The loop iterations of the generator so far are the first batches of the
\* partition of the path list into runs of BATCH_SIZE consecutive indices,
\* each with the embeddings of exactly its loadable images, in index order;
\* an iteration without a loadable image yielded nothing; and once the
\* generator is exhausted every index of the list has been in a batch.
BatchesPartitionPaths ==
  LET n == Len(page_image_path_cache)
      good(j) == (Lookup(page_image_dir, page_image_path_cache[j + 1])).data = {"png"}
  IN /\ \A k \in 1..Len(batches) :
          LET first == (k - 1) * BATCH_SIZE
              expected == {j \in 0..(n - 1) : first <= j /\ j < first + BATCH_SIZE}
              loadable == {j \in expected : good(j)}
              b == batches[k]
          IN /\ b.i = first
             /\ b.indices = expected
             /\ expected # {}
             /\ Cardinality(expected) <= BATCH_SIZE
             /\ Len(b.embedded) = Cardinality(loadable)
             /\ {b.embedded[x] : x \in 1..Len(b.embedded)}
                  = {page_image_path_cache[j + 1] : j \in loadable}
             /\ \A x, y \in 1..Len(b.embedded) :
                  x < y => StrLess(b.embedded[x], b.embedded[y])
             /\ IF b.embedded = <<>>
                THEN /\ first \notin DOMAIN upsert_attempts
                     /\ ~(pc = "upsert" /\ batch_i = first)
                ELSE \/ first \in DOMAIN upsert_attempts
                     \/ /\ pc = "upsert" /\ batch_i = first
                        /\ embeddings = [x \in 1..Len(b.embedded) |-> [of |-> b.embedded[x]]]
     /\ \A a, b \in 1..Len(batches) :
          a # b => batches[a].indices \cap batches[b].indices = {}
     /\ (pc \in {"query", "exited"} /\ rule_set = "directory") =>
          UNION {batches[k].indices : k \in 1..Len(batches)} = 0..(n - 1)

\* C22: _generate_image_embeddings partitions the path list into consecutive
\* batches of at most BATCH_SIZE paths in increasing index order, embeds
\* every loadable image exactly once, yields nothing for a batch without a
\* loadable image, and is exhausted after the last batch whatever the length
\* of the list (0 included): indexing always reaches the query loop or the
\* end of the script.
C22_BatchesPartitionPaths ==
  /\ []BatchesPartitionPaths
  /\ <>(pc \in {"query", "exited"})

\* C22 witness: a list of four paths was indexed in two batches; the first
\* embedded two of its three images, the second had no loadable image.
C22_Witness ==
  /\ pc = "query"
  /\ Len(page_image_path_cache) = 4
  /\ Len(batches) = 2
  /\ Len(batches[1].embedded) = 2
  /\ batches[2].embedded = <<>>

\* C23: create_index runs extraction, then annotation, then combination: a
\* request is sent only after every PDF was extracted; with no provider, or
\* one that does not support images, no request is sent and no annotation
\* file is written; and every run that has ended did so by running the
\* combiner, as its last stage.
C23_StagesInOrder ==
  /\ requests # EmptyMap => pc \in {"llm", "combine", "done"}
  /\ (~llm_provider.present \/ ~SupportsImages(llm_provider.model)) =>
       /\ requests = EmptyMap
       /\ pc # "llm"
       /\ \A e \in embDir.entries : Suffix(e.name) = ".json" => e.writes = 0
  /\ pc = "done" => todoImgs = {}
  /\ pc \in {"done", "aborted"} => pc = "done"

====
